---- MODULE Spec2Model ----
(***************************************************************************)
(* A model of DNA_seq_algorithms.ipynb: approximate matching by the        *)
(* pigeonhole principle, the Boyer-Moore scan, the edit distances, and the *)
(* overlap / shortest-common-superstring assembly functions.               *)
(*                                                                         *)
(* A Python str is a sequence of one-character strings.  Python positions  *)
(* are 0-based, TLA+ sequences 1-based: s[j] in the code is s[j + 1] here. *)
(***************************************************************************)
EXTENDS Integers, Sequences, FiniteSets, TLC

VARIABLES
    \* approximate_matching(pattern, text, n, method): arguments, position,
    \* the exception raised (if any), the returned list, the hit counter
    am_pattern, am_text, am_n, am_method, am_pc, am_error, am_result, total_hits,
    \* boyer_moore_exact_matching(pattern, p_bm, text): arguments, position,
    \* and the locals i, shift, mismatched, occurrences
    bm_pattern, bm_text, bm_pc, bm_i, bm_shift, bm_mismatched, occurrences,
    \* editDist_xy(x, y) / editDist_min(p, t): arguments, position, the
    \* matrix D when the call returns, result
    ed_x, ed_y, ed_pc, ed_D, ed_result,
    \* overlap(a, b, min_length): arguments, position, result
    ov_a, ov_b, ov_min_length, ov_pc, ov_result,
    \* scs(ss): argument, position, index of the next permutation, locals
    scs_ss, scs_pc, perm_idx, shortest_sup, shortest_sup_lst,
    \* greedy_scs_using_index(reads, k): g_reads is the list object the
    \* caller passed (shared with the caller), g_input its contents at the
    \* call, then the locals reada, readb, olen and the returned string;
    \* g_index is kmer_dct of the last pick_max_overlap_index call
    g_reads, g_k, g_input, g_pc, g_reada, g_readb, g_olen, g_result, g_index

vars_am == <<am_pattern, am_text, am_n, am_method, am_pc, am_error, am_result,
             total_hits>>
vars_bm == <<bm_pattern, bm_text, bm_pc, bm_i, bm_shift, bm_mismatched,
             occurrences>>
vars_ed == <<ed_x, ed_y, ed_pc, ed_D, ed_result>>
vars_ov == <<ov_a, ov_b, ov_min_length, ov_pc, ov_result>>
vars_scs == <<scs_ss, scs_pc, perm_idx, shortest_sup, shortest_sup_lst>>
vars_g == <<g_reads, g_k, g_input, g_pc, g_reada, g_readb, g_olen, g_result,
            g_index>>
vars == <<vars_am, vars_bm, vars_ed, vars_ov, vars_scs, vars_g>>

(***************************************************************************)
(* Bounds of the model.                                                    *)
(***************************************************************************)
\* the symbols sequences are drawn from (a subset of A, C, G, T, N)
Alphabet == {"A", "C"}
\* longest pattern / x / a / b / string of ss
MaxPatLen == 3
\* longest text / y
MaxTextLen == 4
\* largest number of allowed mismatches n
MaxN == 2
\* largest min_length / k
MaxK == 2
\* most strings handed to scs, and their largest common length
MaxSS == 3
MaxSSLen == 2
\* most reads handed to greedy_scs_using_index, and the longest of them
MaxReads == 3
MaxReadLen == 2

\* Python's None, where a str or a list is expected: a value no sequence
\* over the alphabet equals
None == <<"None">>

SeqsUpTo(L) == UNION {[1..m -> Alphabet] : m \in 0..L}
SeqsBetween(lo, hi) == UNION {[1..m -> Alphabet] : m \in lo..hi}

Max2(p, q) == IF p >= q THEN p ELSE q
Min2(p, q) == IF p <= q THEN p ELSE q
SetMin(S) == CHOOSE m \in S : \A o \in S : m <= o
SetMax(S) == CHOOSE m \in S : \A o \in S : m >= o
Range(s) == {s[j] : j \in 1..Len(s)}

\* s[lo:hi] for 0 <= lo, 0 <= hi (Python clips both ends to len(s))
Slice(s, lo, hi) ==
    LET h == Min2(hi, Len(s))
    IN  IF lo >= h THEN <<>> ELSE [j \in 1..(h - lo) |-> s[lo + j]]

\* s[lo:]
SliceFrom(s, lo) == Slice(s, lo, Len(s))

\* s[-c:] for c >= 1 (the last c symbols, or all of s when it is shorter)
SliceLast(s, c) == SliceFrom(s, Max2(0, Len(s) - c))

\* s[0::stride]
Strided(s, stride) ==
    [j \in 1..((Len(s) + stride - 1) \div stride) |-> s[(j - 1) * stride + 1]]

\* Python's p // q on integers (floor division), q # 0
PyFloorDiv(p, q) ==
    IF q > 0
    THEN IF p >= 0 THEN p \div q ELSE -(((-p) + q - 1) \div q)
    ELSE IF p >= 0 THEN -((p + (-q) - 1) \div (-q)) ELSE (-p) \div (-q)

\* the ascending list of a finite set of integers
RECURSIVE SortedSeq(_)
SortedSeq(S) ==
    IF S = {} THEN <<>>
    ELSE LET m == SetMin(S) IN <<m>> \o SortedSeq(S \ {m})

(***************************************************************************)
(* Index_objects and BoyerMoore: imported by the notebook, their code is   *)
(* not in it.  Modelled from the design's sections 3, 4.2, 4.3 and 4.4.    *)
(***************************************************************************)
\* ExactIndex.build(text, k): text[o:o+k] -> o for every 0 <= o <= len(text)-k
Index(text, k) ==
    {<<Slice(text, o, o + k), o>> : o \in 0..(Len(text) - k)}

\* ExactIndex.query: the offsets stored under pattern_piece, verbatim
queryIndex(p, text, index) ==
    SortedSeq({e[2] : e \in {e \in index : e[1] = p}})

\* SubsequenceIndex.build(text, k, stride): k symbols taken every stride-th
\* position from o, for every o whose span k*stride - stride + 1 fits
SubseqIndex(text, k, stride) ==
    LET span == k * stride - stride + 1
    IN  [ival |-> stride,
         entries |-> {<<[j \in 1..k |-> text[o + (j - 1) * stride + 1]], o>> :
                        o \in 0..(Len(text) - span)}]

\* SubsequenceIndex.query: the piece is strided the same way, then looked up
querySubseqIndex(p, text, index) ==
    SortedSeq({e[2] : e \in {e \in index.entries : e[1] = Strided(p, index.ival)}})

\* bad-character table: the distance that moves the pattern so that the
\* mismatched text symbol c meets its rightmost occurrence left of j, or
\* moves the pattern past it when there is none
bad_character_rule(p, j, c) ==
    LET left == {q \in 0..(j - 1) : p[q + 1] = c}
    IN  IF left = {} THEN j + 1 ELSE j - SetMax(left)

\* good-suffix table: for a mismatch at j, the least shift that realigns the
\* matched suffix p[j+1:] with an earlier copy of it, or with the longest
\* border of the pattern when there is no such copy; 0 when nothing matched
good_suffix_rule(p, j) ==
    IF j = Len(p) - 1 THEN 0
    ELSE SetMin({s \in 1..Len(p) :
            \A q \in (j + 1)..(Len(p) - 1) : q - s >= 0 => p[q - s + 1] = p[q + 1]})

(***************************************************************************)
(* boyer_moore_exact_matching(pattern, p_bm, text), as a function of its   *)
(* arguments.  The body of the while loop assigns shift and mismatched     *)
(* only; it does not assign i, does not append to occurrences, and the     *)
(* function has no return statement.                                       *)
(***************************************************************************)
\* the while condition: i < len(text) - len(pattern) + 1
bm_loop_condition(pattern, text, pos) == pos < Len(text) - Len(pattern) + 1

\* one alignment: the scan right to left until the first mismatch.
\* <<mismatched, shift>> after the for loop
bm_align(pattern, text, pos) ==
    LET bad == {j \in 0..(Len(pattern) - 1) : pattern[j + 1] # text[pos + j + 1]}
    IN  IF bad = {} THEN <<FALSE, 1>>
        ELSE LET j == SetMax(bad)
                 skip_bc == bad_character_rule(pattern, j, text[pos + j + 1])
                 skip_gs == good_suffix_rule(pattern, j)
             IN  <<TRUE, Max2(Max2(1, skip_bc), skip_gs)>>

\* the call returns (falling off the end, so with None) exactly when the
\* loop is not entered at i = 0: no iteration changes i
boyer_moore_returns(pattern, text) == ~bm_loop_condition(pattern, text, 0)

boyer_moore_exact_matching(pattern, text) ==
    IF boyer_moore_returns(pattern, text)
    THEN [outcome |-> "returned None", value |-> <<>>]
    ELSE [outcome |-> "diverged", value |-> <<>>]

(***************************************************************************)
(* approximate_matching(pattern, text, n, method)                          *)
(***************************************************************************)
Methods == {"BoyerMoore", "SubStringIndex", "SubSeqIndex"}

\* the two verification loops: "for j in range(lo, hi)" counting the
\* mismatches of pattern against the alignment at off, leaving the loop as
\* soon as the count exceeds n.  The count after the loop.
RECURSIVE count_mismatches(_, _, _, _, _, _, _)
count_mismatches(pattern, text, off, j, hi, mismatches, n) ==
    IF j >= hi THEN mismatches
    ELSE IF pattern[j + 1] # text[off + j + 1]
         THEN IF mismatches + 1 > n THEN mismatches + 1
              ELSE count_mismatches(pattern, text, off, j + 1, hi, mismatches + 1, n)
         ELSE count_mismatches(pattern, text, off, j + 1, hi, mismatches, n)

\* a bug within_budget could have: one mismatch too many is let through
within_budget_off_by_one(mismatches, n) == mismatches <= n + 1

\* "if mismatches <= n" after both loops
within_budget(mismatches, n) == mismatches <= n

\* the body of "for m in matches" for one hit m of the segment [start, end):
\* the alignment start it adds to all_matches, as a set of zero or one
verify_hit(pattern, text, n, start, end, m) ==
    IF m < start \/ m - start + Len(pattern) > Len(text) THEN {}
    ELSE LET before == count_mismatches(pattern, text, m - start, 0, start, 0, n)
             total == count_mismatches(pattern, text, m - start, end,
                                       Len(pattern), before, n)
         IN  IF within_budget(total, n) THEN {m - start} ELSE {}

\* the exact-matching step of one segment: what "matches" is bound to
segment_matches(piece, text, method) ==
    CASE method = "BoyerMoore" -> boyer_moore_exact_matching(piece, text)
      [] method = "SubStringIndex" ->
            [outcome |-> "returned",
             value |-> queryIndex(piece, text, Index(text, Len(piece)))]
      [] method = "SubSeqIndex" ->
            [outcome |-> "returned",
             value |-> querySubseqIndex(piece, text, SubseqIndex(text, Len(piece), 3))]
      [] OTHER -> [outcome |-> "raised", value |-> <<>>]

\* "for i in range(n + 1)" from iteration seg on, with the locals so far
RECURSIVE am_loop(_, _, _, _, _, _, _, _)
am_loop(pattern, text, n, method, segment_len, seg, all_matches, hits) ==
    IF seg >= n + 1
    THEN [pc |-> "returned", error |-> "",
          result |-> SortedSeq(all_matches), hits |-> hits]
    ELSE LET start == seg * segment_len
             end == Min2((seg + 1) * segment_len, Len(pattern))
             found == segment_matches(Slice(pattern, start, end), text, method)
         IN  CASE found.outcome = "raised" ->
                    [pc |-> "raised", error |-> "Not a valid method!",
                     result |-> <<>>, hits |-> hits]
               [] found.outcome = "diverged" ->
                    [pc |-> "diverged", error |-> "",
                     result |-> <<>>, hits |-> hits]
               [] found.outcome = "returned None" ->
                    \* len(matches) of None
                    [pc |-> "raised", error |-> "TypeError",
                     result |-> <<>>, hits |-> hits]
               [] OTHER ->
                    am_loop(pattern, text, n, method, segment_len, seg + 1,
                            all_matches \cup
                              UNION {verify_hit(pattern, text, n, start, end, m) :
                                       m \in Range(found.value)},
                            hits + Len(found.value))

approximate_matching(pattern, text, n, method) ==
    IF n + 1 = 0
    THEN [pc |-> "raised", error |-> "ZeroDivisionError",
          result |-> <<>>, hits |-> 0]
    ELSE am_loop(pattern, text, n, method,
                 PyFloorDiv(Len(pattern), n + 1), 0, {}, 0)

InitIdleAM ==
    /\ am_pattern = <<>> /\ am_text = <<>> /\ am_n = 0 /\ am_method = "SubStringIndex"
    /\ am_pc = "idle" /\ am_error = "" /\ am_result = <<>> /\ total_hits = 0
InitIdleBM ==
    /\ bm_pattern = <<>> /\ bm_text = <<>> /\ bm_pc = "idle" /\ bm_i = 0
    /\ bm_shift = 1 /\ bm_mismatched = FALSE /\ occurrences = <<>>
InitIdleED ==
    /\ ed_x = <<>> /\ ed_y = <<>> /\ ed_pc = "idle" /\ ed_D = <<>>
    /\ ed_result = 0
InitIdleOV ==
    /\ ov_a = <<>> /\ ov_b = <<>> /\ ov_min_length = 1 /\ ov_pc = "idle"
    /\ ov_result = 0
InitIdleSCS ==
    /\ scs_ss = <<>> /\ scs_pc = "idle" /\ perm_idx = 1 /\ shortest_sup = None
    /\ shortest_sup_lst = <<>>
InitIdleG ==
    /\ g_reads = <<>> /\ g_k = 1 /\ g_input = <<>> /\ g_pc = "idle"
    /\ g_reada = None /\ g_readb = None /\ g_olen = 0 /\ g_result = None
    /\ g_index = <<>>

\* the values of n tried: the allowed ones and two negative ones
NValues == (-2)..MaxN

InitAM ==
    /\ am_pattern \in SeqsUpTo(MaxPatLen)
    /\ am_text \in SeqsUpTo(MaxTextLen)
    /\ am_n \in NValues
    /\ am_method \in Methods \cup {"Other"}
    /\ am_pc = "call" /\ am_error = "" /\ am_result = <<>> /\ total_hits = 0
    /\ InitIdleBM /\ InitIdleED /\ InitIdleOV /\ InitIdleSCS /\ InitIdleG

\* the whole call, up to its return, its exception, or the point where it
\* stops making progress
CallApproximateMatching ==
    /\ am_pc = "call"
    /\ LET r == approximate_matching(am_pattern, am_text, am_n, am_method)
       IN  /\ am_pc' = r.pc
           /\ am_error' = r.error
           /\ am_result' = r.result
           /\ total_hits' = r.hits
    /\ UNCHANGED <<am_pattern, am_text, am_n, am_method>>
    /\ UNCHANGED <<vars_bm, vars_ed, vars_ov, vars_scs, vars_g>>

NextAM == CallApproximateMatching
SpecAM == InitAM /\ [][NextAM]_vars

(***************************************************************************)
(* Claims about approximate_matching.                                      *)
(***************************************************************************)
\* the number of positions j with pattern[j] != text[o + j]
Hamming(pattern, text, o) ==
    Cardinality({j \in 1..Len(pattern) : pattern[j] # text[o + j]})

\* the offsets at which pattern aligns to text with at most n mismatches
TrueAlignments(pattern, text, n) ==
    {o \in 0..(Len(text) - Len(pattern)) : Hamming(pattern, text, o) <= n}

\* C1: pigeonhole soundness.  For n >= 0 and len(pattern) >= n + 1, every
\* offset at which pattern aligns to text with at most n mismatches is in the
\* list the call returns, for each of the three methods.
C1_PigeonholeSoundness ==
    (am_pc # "call" /\ am_method \in Methods /\ am_n >= 0
        /\ Len(am_pattern) >= am_n + 1)
    => \A o \in TrueAlignments(am_pattern, am_text, am_n) :
          am_pc = "returned" /\ o \in Range(am_result)

\* the part of C1 the code keeps: with the SubStringIndex method the call
\* returns, and every such offset is in the list
C1_SoundWithSubStringIndex ==
    (am_pc # "call" /\ am_method = "SubStringIndex" /\ am_n >= 0
        /\ Len(am_pattern) >= am_n + 1)
    => /\ am_pc = "returned"
       /\ \A o \in TrueAlignments(am_pattern, am_text, am_n) :
             o \in Range(am_result)

\* C2: no false positives.  Every offset of a returned list is a position of
\* the text at which the whole pattern fits and differs from the text in at
\* most n places, and no offset is in the list twice.
C2_NoFalsePositives ==
    am_pc = "returned"
    => /\ \A j \in 1..Len(am_result) :
             /\ 0 <= am_result[j]
             /\ am_result[j] <= Len(am_text) - Len(am_pattern)
             /\ Hamming(am_pattern, am_text, am_result[j]) <= am_n
       /\ \A j1, j2 \in 1..Len(am_result) :
             am_result[j1] = am_result[j2] => j1 = j2

\* a call returned an alignment with a mismatch that more hits than one
\* pointed at, and rejected another candidate
C2_Witness ==
    /\ am_pc = "returned" /\ am_n >= 1 /\ Len(am_pattern) >= am_n + 1
    /\ Len(am_result) >= 1
    /\ total_hits > Len(am_result)
    /\ \E j \in 1..Len(am_result) :
          Hamming(am_pattern, am_text, am_result[j]) >= 1
    /\ Len(am_result) < Len(am_text) - Len(am_pattern) + 1

\* C3: for n >= 0 the BoyerMoore call and the SubStringIndex call on the same
\* pattern, text and n both return, and return the same set of offsets.
C3_BoyerMooreAgreesWithIndex ==
    (am_pc # "call" /\ am_method = "BoyerMoore" /\ am_n >= 0)
    => LET other == approximate_matching(am_pattern, am_text, am_n,
                                         "SubStringIndex")
       IN  /\ am_pc = "returned"
           /\ other.pc = "returned"
           /\ Range(am_result) = Range(other.result)

\* C8: a call with a method that is none of the three raises the
\* unsupported-method exception, whatever pattern, text and n are, and
\* returns nothing.
C8_UnsupportedMethodFails ==
    (am_pc # "call" /\ am_method \notin Methods)
    => /\ am_pc = "raised"
       /\ am_error = "Not a valid method!"
       /\ am_result = <<>>

(***************************************************************************)
(* boyer_moore_exact_matching step by step: the while test, then the body  *)
(* of the loop for one alignment.                                          *)
(***************************************************************************)
InitBM ==
    /\ bm_pattern \in SeqsUpTo(MaxPatLen)
    /\ bm_text \in SeqsUpTo(MaxTextLen)
    /\ bm_pc = "while" /\ bm_i = 0 /\ occurrences = <<>>
    /\ bm_shift = 1 /\ bm_mismatched = FALSE
    /\ InitIdleAM /\ InitIdleED /\ InitIdleOV /\ InitIdleSCS /\ InitIdleG

\* "while i < len(text) - len(pattern) + 1:"; when the test fails the
\* function ends without a return statement
BMLoopTest ==
    /\ bm_pc = "while"
    /\ bm_pc' = IF bm_loop_condition(bm_pattern, bm_text, bm_i)
                THEN "body" ELSE "returned None"
    /\ UNCHANGED <<bm_pattern, bm_text, bm_i, bm_shift, bm_mismatched, occurrences>>
    /\ UNCHANGED <<vars_am, vars_ed, vars_ov, vars_scs, vars_g>>

\* the loop body: shift = 1, mismatched = False, the right-to-left
\* comparison, and "if not mismatched: occurrences" (an expression, with no
\* effect).  Nothing assigns i or occurrences.
BMAlign ==
    /\ bm_pc = "body"
    /\ LET r == bm_align(bm_pattern, bm_text, bm_i)
       IN  bm_mismatched' = r[1] /\ bm_shift' = r[2]
    /\ bm_pc' = "while"
    /\ UNCHANGED <<bm_pattern, bm_text, bm_i, occurrences>>
    /\ UNCHANGED <<vars_am, vars_ed, vars_ov, vars_scs, vars_g>>

NextBM == BMLoopTest \/ BMAlign
SpecBM == InitBM /\ [][NextBM]_vars
\* a running call keeps running: the interpreter executes the next statement
FairSpecBM == SpecBM /\ WF_vars(NextBM)

\* C9: the scan terminates.  After each alignment the text position i is
\* strictly larger: by the shift max(1, skip_bc, skip_gs) after a mismatch
\* and by 1 after a full match, whose offset is appended to occurrences.
C9_ScanAdvances ==
    [][(bm_pc = "body" /\ bm_pc' = "while")
        => /\ bm_i' = bm_i + (IF bm_mismatched' THEN bm_shift' ELSE 1)
           /\ bm_i' > bm_i
           /\ occurrences' = IF bm_mismatched' THEN occurrences
                             ELSE Append(occurrences, bm_i)]_vars

\* C9, the termination itself: every scan reaches its end
C9_ScanTerminates == <>(bm_pc = "returned None")

(***************************************************************************)
(* editDist_xy(x, y) and editDist_min(p, t).  The matrix D is a sequence   *)
(* of rows: D[i][j] in the code is D[i + 1][j + 1] here.                   *)
(***************************************************************************)
Min3(p, q, r) == Min2(Min2(p, q), r)

\* a bug the inner loop could have: the diagonal step always costs 1
xy_cell_no_match(left, up, diag, same) == Min3(left + 1, up + 1, diag + 1)

\* editDist_xy, the body of the inner loop: D[i][j] from D[i][j-1],
\* D[i-1][j], D[i-1][j-1] and x[i-1] == y[j-1]
xy_cell(left, up, diag, same) ==
    LET distHor == left + 1
        distVer == up + 1
        distDiag == IF same THEN diag ELSE diag + 1
    IN  Min3(distHor, distVer, distDiag)

\* editDist_xy: "for j in range(1, len(y)+1)" for row i, from column j on;
\* row holds D[i][0..j-1], prev is row i - 1
RECURSIVE xy_fill_row(_, _, _, _, _)
xy_fill_row(prev, row, ch, y, j) ==
    IF j > Len(y) THEN row
    ELSE xy_fill_row(prev,
                     Append(row, xy_cell(row[j], prev[j + 1], prev[j], ch = y[j])),
                     ch, y, j + 1)

\* editDist_xy: "for i in range(1, len(x)+1)" from row i on; D[i][0] = i
RECURSIVE xy_fill(_, _, _, _)
xy_fill(D, x, y, i) ==
    IF i > Len(x) THEN D
    ELSE xy_fill(Append(D, xy_fill_row(D[i], <<i>>, x[i], y, 1)), x, y, i + 1)

\* editDist_xy: the matrix after the loops; its first row is D[0][j] = j
editDist_xy_matrix(x, y) == xy_fill(<<[j \in 1..(Len(y) + 1) |-> j - 1]>>, x, y, 1)

\* D[-1][-1]
editDist_xy(x, y) == editDist_xy_matrix(x, y)[Len(x) + 1][Len(y) + 1]

\* editDist_min, the body of the inner loop
min_cell(left, up, diag, same) ==
    LET distHor == left + 1
        distVer == up + 1
        distDiag == IF same THEN diag ELSE diag + 1
    IN  Min3(distHor, distVer, distDiag)

RECURSIVE min_fill_row(_, _, _, _, _)
min_fill_row(prev, row, ch, t, j) ==
    IF j > Len(t) THEN row
    ELSE min_fill_row(prev,
                      Append(row, min_cell(row[j], prev[j + 1], prev[j], ch = t[j])),
                      ch, t, j + 1)

RECURSIVE min_fill(_, _, _, _)
min_fill(D, p, t, i) ==
    IF i > Len(p) THEN D
    ELSE min_fill(Append(D, min_fill_row(D[i], <<i>>, p[i], t, 1)), p, t, i + 1)

\* a bug the first row could have: initialised as in editDist_xy
min_first_row_as_xy(t) == [j \in 1..(Len(t) + 1) |-> j - 1]

\* editDist_min: "D[0][i] = 0" for i in range(len(t)+1), after D[i][0] = i
min_first_row(t) == [j \in 1..(Len(t) + 1) |-> 0]

editDist_min_matrix(p, t) == min_fill(<<min_first_row(t)>>, p, t, 1)

\* min(D[-1][:])
editDist_min(p, t) == SetMin(Range(editDist_min_matrix(p, t)[Len(p) + 1]))

InitED ==
    /\ ed_x \in SeqsUpTo(MaxPatLen)
    /\ ed_y \in SeqsUpTo(MaxTextLen)
    /\ ed_pc = "call" /\ ed_D = <<>> /\ ed_result = 0
    /\ InitIdleAM /\ InitIdleBM /\ InitIdleOV /\ InitIdleSCS /\ InitIdleG

\* editDist_xy(ed_x, ed_y)
CallEditDistXY ==
    /\ ed_pc = "call"
    /\ ed_D' = editDist_xy_matrix(ed_x, ed_y)
    /\ ed_result' = editDist_xy(ed_x, ed_y)
    /\ ed_pc' = "editDist_xy returned"
    /\ UNCHANGED <<ed_x, ed_y>>
    /\ UNCHANGED <<vars_am, vars_bm, vars_ov, vars_scs, vars_g>>

\* editDist_min(ed_x, ed_y): ed_x is the pattern p, ed_y the text t
CallEditDistMin ==
    /\ ed_pc = "call"
    /\ ed_D' = editDist_min_matrix(ed_x, ed_y)
    /\ ed_result' = editDist_min(ed_x, ed_y)
    /\ ed_pc' = "editDist_min returned"
    /\ UNCHANGED <<ed_x, ed_y>>
    /\ UNCHANGED <<vars_am, vars_bm, vars_ov, vars_scs, vars_g>>

NextED == CallEditDistXY \/ CallEditDistMin
SpecED == InitED /\ [][NextED]_vars

\* the contiguous substrings of t, the empty one included
Substrings(t) == {Slice(t, lo, hi) : lo \in 0..Len(t), hi \in 0..Len(t)}

\* C4: editDist_min(p, t) is the least editDist_xy(p, s) over the contiguous
\* substrings s of t, the empty one included; the first row of its matrix is
\* zero and its first column is D[i][0] = i.
C4_EditDistMinIsBestPlacement ==
    ed_pc = "editDist_min returned"
    => /\ ed_result = SetMin({editDist_xy(ed_x, s) : s \in Substrings(ed_y)})
       /\ \A j \in 0..Len(ed_y) : ed_D[1][j + 1] = 0
       /\ \A r \in 0..Len(ed_x) : ed_D[r + 1][1] = r

\* editDist_min returned less than the distance to the whole text, and not 0:
\* the best placement is a proper, inexact one
C4_Witness ==
    /\ ed_pc = "editDist_min returned"
    /\ Len(ed_x) >= 2 /\ Len(ed_y) > Len(ed_x)
    /\ ed_result >= 1
    /\ ed_result < editDist_xy(ed_x, ed_y)
    /\ ed_result < Len(ed_x)

\* C5: editDist_xy(x, y) = editDist_xy(y, x) for all x and y, the empty ones
\* included, and editDist_xy(x, x) = 0.
C5_EditDistSymmetric ==
    ed_pc = "editDist_xy returned"
    => /\ ed_result = editDist_xy(ed_y, ed_x)
       /\ ed_x = ed_y => ed_result = 0

\* editDist_xy returned for two different sequences of different lengths at
\* a distance that needs both an indel and a substitution
C5_Witness ==
    /\ ed_pc = "editDist_xy returned"
    /\ Len(ed_x) >= 2 /\ Len(ed_y) > Len(ed_x)
    /\ ed_result > Len(ed_y) - Len(ed_x)

(***************************************************************************)
(* overlap(a, b, min_length)                                               *)
(***************************************************************************)
\* s.find(sub, start): the lowest position >= start at which sub occurs in
\* s, or -1
find(s, sub, start) ==
    LET at == {q \in start..(Len(s) - Len(sub)) : Slice(s, q, q + Len(sub)) = sub}
    IN  IF at = {} THEN -1 ELSE SetMin(at)

\* b.startswith(prefix)
startswith(s, prefix) ==
    Len(prefix) <= Len(s) /\ Slice(s, 0, Len(prefix)) = prefix

\* the "while True" loop of overlap, entered with the local start
RECURSIVE overlap_loop(_, _, _, _)
overlap_loop(a, b, min_length, start) ==
    LET found == find(a, Slice(b, 0, min_length), start)
    IN  IF found = -1 THEN 0
        ELSE IF startswith(b, SliceFrom(a, found)) THEN Len(a) - found
        ELSE overlap_loop(a, b, min_length, found + 1)

overlap(a, b, min_length) == overlap_loop(a, b, min_length, 0)

\* the call of the notebook's test cell: overlap('ATGCAAT', 'CAATCCC', 2)
OverlapExampleA == <<"A", "T", "G", "C", "A", "A", "T">>
OverlapExampleB == <<"C", "A", "A", "T", "C", "C", "C">>

InitOV ==
    /\ \/ /\ ov_a \in SeqsUpTo(MaxPatLen)
          /\ ov_b \in SeqsUpTo(MaxPatLen)
          /\ ov_min_length \in 1..MaxK
       \/ /\ ov_a = OverlapExampleA
          /\ ov_b = OverlapExampleB
          /\ ov_min_length = 2
    /\ ov_pc = "call" /\ ov_result = 0
    /\ InitIdleAM /\ InitIdleBM /\ InitIdleED /\ InitIdleSCS /\ InitIdleG

CallOverlap ==
    /\ ov_pc = "call"
    /\ ov_result' = overlap(ov_a, ov_b, ov_min_length)
    /\ ov_pc' = "returned"
    /\ UNCHANGED <<ov_a, ov_b, ov_min_length>>
    /\ UNCHANGED <<vars_am, vars_bm, vars_ed, vars_scs, vars_g>>

NextOV == CallOverlap
SpecOV == InitOV /\ [][NextOV]_vars

\* the length of the longest suffix of a that is a prefix of b
LongestSuffixPrefix(a, b) ==
    SetMax({c \in 0..Min2(Len(a), Len(b)) :
              SliceFrom(a, Len(a) - c) = Slice(b, 0, c)})

\* C6: for min_length >= 1, overlap(a, b, min_length) is the length of the
\* longest suffix of a that is a prefix of b when that length is at least
\* min_length, and 0 otherwise; so a result that is not 0 is never below
\* min_length, also when b is shorter than min_length; and
\* overlap('ATGCAAT', 'CAATCCC', 2) = 4.
C6_OverlapIsLongestSuffixPrefix ==
    ov_pc = "returned"
    => /\ ov_result = (IF LongestSuffixPrefix(ov_a, ov_b) >= ov_min_length
                       THEN LongestSuffixPrefix(ov_a, ov_b) ELSE 0)
       /\ ov_result # 0 => ov_result >= ov_min_length
       /\ (ov_a = OverlapExampleA /\ ov_b = OverlapExampleB /\ ov_min_length = 2)
             => ov_result = 4

\* the part of C6 the code keeps: the claim whenever b has at least
\* min_length symbols
C6_OverlapWhenBLongEnough ==
    (ov_pc = "returned" /\ Len(ov_b) >= ov_min_length)
    => /\ ov_result = (IF LongestSuffixPrefix(ov_a, ov_b) >= ov_min_length
                       THEN LongestSuffixPrefix(ov_a, ov_b) ELSE 0)
       /\ ov_result # 0 => ov_result >= ov_min_length
       /\ (ov_a = OverlapExampleA /\ ov_b = OverlapExampleB /\ ov_min_length = 2)
             => ov_result = 4

(***************************************************************************)
(* scs(ss), one permutation of itertools.permutations(ss) per step         *)
(***************************************************************************)
\* itertools.permutations of the positions in S, in the order it yields
\* them: lexicographic in the positions
RECURSIVE permutations(_)
RECURSIVE permutations_from(_, _)
permutations_from(S, rest) ==
    IF rest = {} THEN <<>>
    ELSE LET m == SetMin(rest)
             tails == permutations(S \ {m})
         IN  [q \in 1..Len(tails) |-> <<m>> \o tails[q]]
             \o permutations_from(S, rest \ {m})
permutations(S) == IF S = {} THEN << <<>> >> ELSE permutations_from(S, S)

\* the inner loop of scs: "for i in range(len(ss)-1)" from i = pos on, for
\* the permutation ssperm (a sequence of positions of ss)
RECURSIVE scs_sup(_, _, _, _)
scs_sup(ss, ssperm, pos, sup) ==
    IF pos > Len(ss) - 1 THEN sup
    ELSE LET olen == overlap(ss[ssperm[pos]], ss[ssperm[pos + 1]], 1)
         IN  scs_sup(ss, ssperm, pos + 1,
                     sup \o SliceFrom(ss[ssperm[pos + 1]], olen))

\* the superstring scs builds for one permutation
superstring(ss, ssperm) == scs_sup(ss, ssperm, 1, ss[ssperm[1]])

\* "if shortest_sup is None or len(sup) <= len(shortest_sup)"
scs_keeps(sup, shortest) == shortest = None \/ Len(sup) <= Len(shortest)

InitSCS ==
    /\ \E len \in 1..MaxSSLen, cnt \in 1..MaxSS :
          scs_ss \in [1..cnt -> [1..len -> Alphabet]]
    /\ scs_pc = "for" /\ perm_idx = 1 /\ shortest_sup = None
    /\ shortest_sup_lst = <<>>
    /\ InitIdleAM /\ InitIdleBM /\ InitIdleED /\ InitIdleOV /\ InitIdleG

\* one iteration of "for ssperm in itertools.permutations(ss)"
ScsPermutation ==
    /\ scs_pc = "for"
    /\ LET perms == permutations(1..Len(scs_ss))
       IN  /\ perm_idx <= Len(perms)
           /\ LET sup == superstring(scs_ss, perms[perm_idx])
              IN  IF scs_keeps(sup, shortest_sup)
                  THEN /\ shortest_sup' = sup
                       /\ shortest_sup_lst' = Append(shortest_sup_lst, sup)
                  ELSE UNCHANGED <<shortest_sup, shortest_sup_lst>>
    /\ perm_idx' = perm_idx + 1
    /\ UNCHANGED <<scs_ss, scs_pc>>
    /\ UNCHANGED <<vars_am, vars_bm, vars_ed, vars_ov, vars_g>>

\* the permutations are exhausted: "return shortest_sup_lst"
ScsReturn ==
    /\ scs_pc = "for"
    /\ perm_idx > Len(permutations(1..Len(scs_ss)))
    /\ scs_pc' = "returned"
    /\ UNCHANGED <<scs_ss, perm_idx, shortest_sup, shortest_sup_lst>>
    /\ UNCHANGED <<vars_am, vars_bm, vars_ed, vars_ov, vars_g>>

NextSCS == ScsPermutation \/ ScsReturn
SpecSCS == InitSCS /\ [][NextSCS]_vars

\* the lengths of the superstrings of all permutations of ss
SuperstringLengths(ss) ==
    LET perms == permutations(1..Len(ss))
    IN  {Len(superstring(ss, perms[q])) : q \in 1..Len(perms)}

\* C10: every string of the list scs(ss) returns has the least length among
\* the superstrings built from all permutations of ss; no longer superstring
\* met earlier in the enumeration is in the list.
C10_ScsReturnsOnlyShortest ==
    scs_pc = "returned"
    => \A q \in 1..Len(shortest_sup_lst) :
          Len(shortest_sup_lst[q]) = SetMin(SuperstringLengths(scs_ss))

\* what the returned list does satisfy: its last string is a shortest one,
\* and the lengths in it never grow
C10_LastIsShortest ==
    scs_pc = "returned"
    => /\ Len(shortest_sup_lst) >= 1
       /\ Len(shortest_sup_lst[Len(shortest_sup_lst)])
             = SetMin(SuperstringLengths(scs_ss))
       /\ shortest_sup = shortest_sup_lst[Len(shortest_sup_lst)]
       /\ \A q \in 1..(Len(shortest_sup_lst) - 1) :
             Len(shortest_sup_lst[q]) >= Len(shortest_sup_lst[q + 1])

(***************************************************************************)
(* The k-mer index and greedy_scs_using_index(reads, k).  A list of reads  *)
(* is a sequence of strings; the pool is the list object reads itself.     *)
(***************************************************************************)
\* get_kmers(read, k), as the set of the k-mers it lists
get_kmers(read, k) == {Slice(read, o, o + k) : o \in 0..(Len(read) - k)}

\* index(): add_read(read, k) for every read of reads, then get_dct():
\* kmer_dct[kmer] is the set of the reads that hold kmer.  (A kmer that is
\* in no read is no key: for reads of length >= k the suffix looked up is
\* always a key.)
kmer_dct(reads, k, kmer) == {read \in Range(reads) : kmer \in get_kmers(read, k)}

\* a bug the index could have: the read appended last (the merged read) is
\* never added
index_dct_without_last(reads, k) ==
    LET old == SubSeq(reads, 1, Len(reads) - 1)
    IN  [kmer \in UNION {get_kmers(old[q], k) : q \in 1..Len(old)} |->
            kmer_dct(old, k, kmer)]

\* pick_max_overlap_index: "ind = index()", add_read for every read of
\* reads, "kmer_dct = ind.get_dct()": the whole dict, built anew from the
\* list the function is called with
index_dct(reads, k) ==
    [kmer \in UNION {get_kmers(reads[q], k) : q \in 1..Len(reads)} |->
        kmer_dct(reads, k, kmer)]

\* pick_max_overlap_index: the overlaps the two loops compute for read
overlaps_of(reads, k, read) ==
    {<<matched_read, overlap(read, matched_read, k)>> :
        matched_read \in kmer_dct(reads, k, SliceLast(read, k)) \ {read}}

\* the largest olen the loops see (best_olen starts at 0)
best_overlap(reads, k) ==
    SetMax({0} \cup UNION {{c[2] : c \in overlaps_of(reads, k, reads[q])} :
                            q \in 1..Len(reads)})

\* pick_max_overlap_index(reads, k): the triples <<reada, readb, best_olen>>
\* it can return.  "olen > best_olen" keeps the first pair that reaches the
\* best length: reada is the first read of the list that reaches it, readb
\* the first such read in the iteration order of the set kmer_dct[...],
\* which Python does not fix.
pick_max_overlap_index(reads, k) ==
    LET best == best_overlap(reads, k)
    IN  IF best = 0 THEN {<<None, None, 0>>}
        ELSE LET first == SetMin({q \in 1..Len(reads) :
                            \E c \in overlaps_of(reads, k, reads[q]) : c[2] = best})
             IN  {<<reads[first], c[1], best>> :
                    c \in {c \in overlaps_of(reads, k, reads[first]) : c[2] = best}}

\* pick_max_overlap(reads, k): itertools.permutations(reads, 2) pairs the
\* reads by position, first index first; "olen > best_olen" keeps the first
\* pair that reaches the best length
pick_max_overlap(reads, k) ==
    LET pairs == {p \in (1..Len(reads)) \X (1..Len(reads)) : p[1] # p[2]}
        olen(p) == overlap(reads[p[1]], reads[p[2]], k)
        best == SetMax({0} \cup {olen(p) : p \in pairs})
    IN  IF best = 0 THEN <<None, None, 0>>
        ELSE LET firsts == {p \in pairs : olen(p) = best}
                 first == CHOOSE p \in firsts :
                             \A o \in firsts :
                                p[1] < o[1] \/ (p[1] = o[1] /\ p[2] <= o[2])
             IN  <<reads[first[1]], reads[first[2]], best>>

\* a bug remove could have: every element equal to value is dropped
remove_all(lst, value) == SelectSeq(lst, LAMBDA z : z # value)

\* list.remove(value): the list without the first element equal to value
remove(lst, value) ==
    LET first == SetMin({q \in 1..Len(lst) : lst[q] = value})
    IN  SubSeq(lst, 1, first - 1) \o SubSeq(lst, first + 1, Len(lst))

\* a bug the merge could have: one symbol too many cut from readb
merged_read_off_by_one(read_a, read_b, best_olen) ==
    read_a \o SliceFrom(read_b, best_olen + 1)

\* reada + readb[olen:]
merged_read(read_a, read_b, best_olen) == read_a \o SliceFrom(read_b, best_olen)

\* ''.join(reads)
RECURSIVE join(_)
join(lst) == IF lst = <<>> THEN <<>> ELSE Head(lst) \o join(Tail(lst))

\* the call of the notebook's test cell, with k = 2
GreedyExample ==
    << <<"C", "A", "T">>, <<"C", "T", "T">>, <<"T", "G", "C">>,
       <<"T", "G", "G">>, <<"G", "A", "T">>, <<"A", "T", "T">> >>

InitG ==
    /\ \/ /\ g_k \in 1..MaxK
          /\ \E cnt \in 0..MaxReads :
                g_reads \in [1..cnt -> SeqsBetween(g_k, MaxReadLen)]
       \/ /\ g_k = 2
          /\ g_reads = GreedyExample
    /\ g_input = g_reads
    /\ g_pc = "call"
    /\ g_reada = None /\ g_readb = None /\ g_olen = 0 /\ g_result = None
    /\ g_index = <<>>
    /\ InitIdleAM /\ InitIdleBM /\ InitIdleED /\ InitIdleOV /\ InitIdleSCS

\* "reada, readb, olen = pick_max_overlap_index(reads, k)" before the loop
GreedyPick ==
    /\ g_pc = "call"
    /\ g_index' = index_dct(g_reads, g_k)
    /\ \E c \in pick_max_overlap_index(g_reads, g_k) :
          g_reada' = c[1] /\ g_readb' = c[2] /\ g_olen' = c[3]
    /\ g_pc' = "while"
    /\ UNCHANGED <<g_reads, g_k, g_input, g_result>>
    /\ UNCHANGED <<vars_am, vars_bm, vars_ed, vars_ov, vars_scs>>

\* one iteration of "while olen > 0": the two removes, the append, and the
\* next pick on the changed list
GreedyMerge ==
    /\ g_pc = "while"
    /\ g_olen > 0
    /\ LET pool == Append(remove(remove(g_reads, g_reada), g_readb),
                          merged_read(g_reada, g_readb, g_olen))
       IN  /\ g_reads' = pool
           /\ g_index' = index_dct(pool, g_k)
           /\ \E c \in pick_max_overlap_index(pool, g_k) :
                 g_reada' = c[1] /\ g_readb' = c[2] /\ g_olen' = c[3]
    /\ UNCHANGED <<g_k, g_input, g_pc, g_result>>
    /\ UNCHANGED <<vars_am, vars_bm, vars_ed, vars_ov, vars_scs>>

\* the loop ends: "return ''.join(reads)"
GreedyReturn ==
    /\ g_pc = "while"
    /\ ~(g_olen > 0)
    /\ g_result' = join(g_reads)
    /\ g_pc' = "returned"
    /\ UNCHANGED <<g_reads, g_k, g_input, g_reada, g_readb, g_olen, g_index>>
    /\ UNCHANGED <<vars_am, vars_bm, vars_ed, vars_ov, vars_scs>>

NextG == GreedyPick \/ GreedyMerge \/ GreedyReturn
SpecG == InitG /\ [][NextG]_vars

\* s occurs in t as a contiguous substring
IsSubstring(s, t) == \E o \in 0..(Len(t) - Len(s)) : Slice(t, o, o + Len(s)) = s

\* C7: for reads of length >= k, after any number of merges every input read
\* is a contiguous substring of a read of the pool, and so of the string
\* that greedy_scs_using_index returns; for the six reads CAT, CTT, TGC,
\* TGG, GAT, ATT and k = 2 the returned string has length 16.
C7_GreedyContainsEveryRead ==
    /\ \A q \in 1..Len(g_input) :
          \E r \in 1..Len(g_reads) : IsSubstring(g_input[q], g_reads[r])
    /\ g_pc = "returned"
       => /\ \A q \in 1..Len(g_input) : IsSubstring(g_input[q], g_result)
          /\ (g_input = GreedyExample /\ g_k = 2) => Len(g_result) = 16

\* a call returned after merging twice: the merged read was merged again
C7_Witness ==
    /\ g_pc = "returned"
    /\ Len(g_input) >= 3
    /\ Len(g_reads) <= Len(g_input) - 2
    /\ Len(g_result) < Len(join(g_input))

\* C11 as claimed: the k-mer index is built once, from the reads the call
\* was given, and is never rebuilt as reads are merged, so that a later
\* lookup can return a removed read and miss the merged one.
C11_IndexBuiltOnce ==
    g_pc \in {"while", "returned"} => g_index = index_dct(g_input, g_k)

\* C11 as the code has it: every pick_max_overlap_index call builds the
\* index anew from the pool it is given.  After each pick the index holds
\* exactly the reads of the pool: no lookup returns a read that was removed,
\* and every k-mer of every pool read, the merged one included, leads to it.
C11_IndexRebuiltEachPick ==
    g_pc \in {"while", "returned"}
    => /\ \A kmer \in DOMAIN g_index : g_index[kmer] \subseteq Range(g_reads)
       /\ \A q \in 1..Len(g_reads) :
             \A kmer \in get_kmers(g_reads[q], g_k) :
                kmer \in DOMAIN g_index /\ g_reads[q] \in g_index[kmer]

\* after a merge, with another merge to come: an input read is gone from the
\* pool and the merged read, which was not an input read, is its last read
C11_Witness ==
    /\ g_pc = "while" /\ g_olen > 0
    /\ Len(g_reads) < Len(g_input)
    /\ g_reads[Len(g_reads)] \notin Range(g_input)
    /\ \E q \in 1..Len(g_input) : g_input[q] \notin Range(g_reads)
    /\ g_readb = g_reads[Len(g_reads)] \/ g_reada = g_reads[Len(g_reads)]

\* lst without the elements at the positions of P, the others in their order
Without(lst, P) ==
    LET keep == SortedSeq((1..Len(lst)) \ P)
    IN  [j \in 1..Len(keep) |-> lst[keep[j]]]

\* C12: greedy_scs_using_index terminates for reads of length >= k.  A
\* running call is never stuck (the two removes of an iteration find their
\* reads), every step either moves on in the code or is an iteration that
\* makes the pool one shorter, and the pool of a non-empty list never gets
\* empty: at most len(reads) - 1 merges happen.  Each iteration takes
\* exactly one reada and one readb out of the pool, leaves the other reads in
\* their order and appends the one merged read reada + readb[olen:]; the
\* result is the concatenation of the remaining reads in pool order.
C12_GreedyTerminates ==
    /\ [](/\ g_pc \in {"call", "while", "returned"}
          /\ Len(g_input) >= 1 => Len(g_reads) >= 1
          /\ Len(g_input) - Len(g_reads) <= Max2(0, Len(g_input) - 1)
          /\ (g_pc = "while" /\ g_olen > 0)
             => /\ \E q \in 1..Len(g_reads) : g_reads[q] = g_reada
                /\ \E q \in 1..Len(g_reads) : g_reads[q] = g_readb
                /\ g_reada # g_readb)
    /\ [][/\ <<g_pc, g_pc'>> \in {<<"call", "while">>, <<"while", "while">>,
                                  <<"while", "returned">>}
          /\ g_pc = "call" => g_reads' = g_reads
          /\ (g_pc = "while" /\ g_pc' = "while")
             => /\ Len(g_reads') = Len(g_reads) - 1
                /\ g_reads'[Len(g_reads')]
                      = g_reada \o SliceFrom(g_readb, g_olen)
                /\ \E q1, q2 \in 1..Len(g_reads) :
                      /\ q1 # q2
                      /\ g_reads[q1] = g_reada /\ g_reads[q2] = g_readb
                      /\ SubSeq(g_reads', 1, Len(g_reads') - 1)
                            = Without(g_reads, {q1, q2})
          /\ (g_pc = "while" /\ g_pc' = "returned")
             => /\ g_reads' = g_reads
                /\ g_result' = join(g_reads)]_vars

\* a call returned after len(reads) - 1 merges of three or more reads, two
\* of them equal
C12_Witness ==
    /\ g_pc = "returned"
    /\ Len(g_input) >= 3
    /\ Len(g_reads) = 1
    /\ \E q1, q2 \in 1..Len(g_input) : q1 # q2 /\ g_input[q1] = g_input[q2]

\* C13: after every pick, the overlap length that pick_max_overlap_index
\* returned is the largest overlap(a, b, k) over the ordered pairs of
\* different reads of the pool, 0 when there is none: the length that the
\* brute-force pick_max_overlap returns for the same pool.  So when the call
\* returns, no two different reads of the pool overlap.
C13_PickIsGlobalMaximum ==
    g_pc \in {"while", "returned"}
    => /\ g_olen = pick_max_overlap(g_reads, g_k)[3]
       /\ g_pc = "returned"
          => \A q1, q2 \in 1..Len(g_reads) :
                q1 # q2 => overlap(g_reads[q1], g_reads[q2], g_k) = 0

\* what the code does: the length is the largest overlap over the pairs of
\* reads that are unequal as strings; equal reads at two places of the pool
\* are never paired
C13_GlobalMaximumOfUnequalReads ==
    g_pc \in {"while", "returned"}
    => g_olen = SetMax({0} \cup
                  {overlap(g_reads[p[1]], g_reads[p[2]], g_k) :
                      p \in {p \in (1..Len(g_reads)) \X (1..Len(g_reads)) :
                                g_reads[p[1]] # g_reads[p[2]]}})

\* C14: greedy_scs_using_index has no effect on its arguments: when the
\* call has returned, the list the caller passed holds the same reads in the
\* same order as before the call, however many merges were made.
C14_CallerListUnchanged ==
    g_pc = "returned" => g_reads = g_input

\* what the code does: the caller's list is unchanged exactly when no merge
\* was made; after m merges it is m reads shorter
C14_CallerListUnchangedIffNoMerge ==
    g_pc = "returned"
    => (g_reads = g_input <=> pick_max_overlap_index(g_input, g_k)
                                 = {<<None, None, 0>>})
====
